---- MODULE Spec2Model ----
(***************************************************************************)
(* Model of the BITS tutorial validation scripts:                          *)
(*   examples/validation_scripts/test_devices.py                           *)
(*   examples/validation_scripts/test_plans.py                             *)
(*   scripts/validate_setup.py                                             *)
(*   scripts/explore_iocs.py                                               *)
(* One run of one entry point is one behaviour.  The devices, the          *)
(* RunEngine, the catalog, the EPICS PVs and the Python import system are  *)
(* the environment: what they answer is chosen when the code asks.         *)
(***************************************************************************)
EXTENDS Integers, Sequences, FiniteSets, TLC

\* Bounds of the model: how many devices the registry holds over all its
\* labels, how many runs the catalog holds before the run starts.
MaxDevices == 3
MaxRuns == 1

VARIABLES
    script,            \* which entry point runs
    pc,                \* position in the code
    registry,          \* bpp._devices_by_label: label -> sequence of device names
    registered,        \* the labels that are keys of bpp._devices_by_label
    EPICS_AVAILABLE,   \* whether "import epics" succeeds
    suiteIdx,          \* position of the for loop over tests
    results,           \* main's results list: <<[name, success]>>
    ret,               \* what the running suite function returned or raised
    motors, detectors, baseline,        \* the suite's local device lists
    idx,               \* position of the suite's current for loop
    motor_results, detector_results, baseline_results,  \* name-keyed dicts
    successful,        \* successful_plans / successful_tests / connected / connected_pvs
    nitems,            \* len() of the list the suite's current for loop walks
    RE,                \* the RunEngine: [inflight, calls, simulate_mode, before]
    cont,              \* where the code continues after RE(...) returns or raises
    cat,               \* number of runs in the catalog
    initial_runs,      \* the suite's local: len(list(cat)) before the plan
    original_mode,     \* test_plan_simulation's local: RE.simulate_mode before the suite
    missing_packages,  \* check_python_environment's local list
    initial_pos,       \* test_device_operations' local: the position read before the moves
    position,          \* position of motors[0], in units of move_amount
    exitCode,          \* process exit code, NoExit while running
    started,           \* history: names of the suites started, in order
    lastProbe,         \* history: what the last probed device did
    items,             \* history: [passed, failed] items of the running suite, as the environment behaved
    why,               \* history: why the running suite ended early, and in which phase
    returned,          \* history: [allTrue, raised] over what the suite functions returned
    report             \* history over the finished suites: [failed, empty]: an item of one failed, one ran no item

vars == <<script, pc, registry, registered, EPICS_AVAILABLE, suiteIdx, results, ret,
          motors, detectors, baseline, idx,
          motor_results, detector_results, baseline_results, successful, nitems,
          RE, cont, cat, initial_runs, original_mode, missing_packages, initial_pos, position,
          exitCode, started, lastProbe, items, why, returned, report>>

envVars == <<script, registry, registered, EPICS_AVAILABLE>>
mainVars == <<suiteIdx, results, exitCode, started, report, returned>>
connVars == <<motor_results, detector_results, baseline_results, lastProbe, why>>
loopVars == <<idx, successful, nitems, initial_runs, original_mode, missing_packages, initial_pos>>
devLists == <<motors, detectors, baseline>>
engineVars == <<RE, cont, cat, position>>

NoExit == 0 - 1

Scripts == {"test_devices", "test_plans", "validate_setup", "explore_iocs"}
Labels == {"motors", "detectors", "baseline"}

Ids(n) == [i \in 1..n |-> i]

\* ---------------------------------------------------------------- helpers

RECURSIVE CountIf(_, _)
\* sum(1 for r in s if P(r)), P given as the set of the r that satisfy it
CountIf(s, good) ==
    IF s = <<>> THEN 0
    ELSE (IF Head(s) \in good THEN 1 ELSE 0) + CountIf(Tail(s), good)

\* mutant: the newest entry is put first
DictSet_Prepend(d, name, rec) ==
    <<rec>> \o SelectSeq(d, LAMBDA r : r.name # name)

\* mutant: results kept in a list, every assignment appends
DictSet_Append(d, name, rec) == Append(d, rec)

\* d[name] = rec on a dict kept in insertion order
DictSet(d, name, rec) ==
    IF \E i \in 1..Len(d) : d[i].name = name
    THEN [i \in 1..Len(d) |-> IF d[i].name = name THEN rec ELSE d[i]]
    ELSE Append(d, rec)

\* mutant: a lookup whose order depends on when it is made
DevicesByLabelGet_Unordered(label) ==
    IF label \notin registered THEN <<>>
    ELSE IF suiteIdx % 2 = 1 THEN registry[label]
    ELSE [i \in 1..Len(registry[label]) |-> registry[label][Len(registry[label]) + 1 - i]]

\* bpp._devices_by_label.get(label, [])
DevicesByLabelGet(label) ==
    IF label \in registered THEN registry[label] ELSE <<>>

\* ------------------------------------------------- the orchestrator's tests

\* mutant: the operations suite is listed before the connectivity suite
Tests_OperationsFirst(s) ==
    IF s = "test_devices"
    THEN <<"Device Operations", "Device Connectivity", "Data Collection">>
    ELSE IF s = "test_plans"
    THEN <<"Plan Simulation", "Built-in Plans", "Real Device Plans">>
    ELSE IF s = "validate_setup"
    THEN <<"IOC Containers", "Python Environment", "Instrument Package",
           "EPICS Connectivity", "Instrument Loading", "Device Functionality",
           "Data Collection">>
    ELSE <<>>

Tests(s) ==
    IF s = "test_devices"
    THEN <<"Device Connectivity", "Device Operations", "Data Collection">>
    ELSE IF s = "test_plans"
    THEN <<"Plan Simulation", "Built-in Plans", "Real Device Plans">>
    ELSE IF s = "validate_setup"
    THEN <<"IOC Containers", "Python Environment", "Instrument Package",
           "EPICS Connectivity", "Instrument Loading", "Device Functionality",
           "Data Collection">>
    ELSE <<>>

\* first position of the suite function that a test name is bound to
Entry(s, name) ==
    IF s = "test_devices" THEN
        (IF name = "Device Connectivity" THEN "dc_load"
         ELSE IF name = "Device Operations" THEN "do_load" ELSE "dd_load")
    ELSE IF s = "test_plans" THEN
        (IF name = "Plan Simulation" THEN "ps_load"
         ELSE IF name = "Built-in Plans" THEN "bp_load" ELSE "pe_load")
    ELSE
        (IF name = "IOC Containers" THEN "vc_run"
         ELSE IF name = "Python Environment" THEN "vp_loop"
         ELSE IF name = "Instrument Package" THEN "vi_find"
         ELSE IF name = "EPICS Connectivity" THEN "ve_import"
         ELSE IF name = "Instrument Loading" THEN "vl_find"
         ELSE IF name = "Device Functionality" THEN "vf_find" ELSE "vd_find")

\* ------------------------------------------------------------ environment

\* What a device does when the code reads it: "read" is the value read
\* (position and limits of a motor, channels or cam.array_size of a detector,
\* get() of a baseline signal), "connected" the connected attribute; either
\* may raise.  "kind" is the detector type the code tells apart with hasattr.
Behaviours ==
    [read : {"value", "none", "raise"},
     connected : {"True", "False", "raise"},
     kind : {"scaler", "area", "plain"}]

BehavioursOf(label) ==
    IF label = "detectors"
    THEN {b \in Behaviours : b.read # "none" /\ (b.kind = "plain" => b.read = "value")}
    ELSE {b \in Behaviours : b.kind = "plain"}

NoProbe == [label |-> "none", name |-> 0,
            beh |-> [read |-> "value", connected |-> "True", kind |-> "plain"]]

\* result dict entries: {'connected': ..., 'status': ...} or {'status': '❌', 'error': str(e)}
Rec(name, connected) == [name |-> name, connected |-> connected, error |-> "none"]
Err(name, msg) == [name |-> name, connected |-> "absent", error |-> msg]

\* ----------------------------------------- test_devices.test_device_connectivity

\* mutant: 'connected': True is stored, not what the motor answered
MotorProbe_AlwaysConnected(d, name, b) ==
    IF b.read = "raise" \/ b.connected = "raise"
    THEN DictSet(d, name, Err(name, "fault"))
    ELSE LET d1 == DictSet(d, name, Rec(name, "True"))
         IN  IF b.read = "none"
             THEN DictSet(d1, name, Err(name, "format"))
             ELSE d1

\* one pass of "for motor in motors", lines 33-55
MotorProbe(d, name, b) ==
    IF b.read = "raise" \/ b.connected = "raise"
    THEN DictSet(d, name, Err(name, "fault"))
    ELSE LET d1 == DictSet(d, name, Rec(name, b.connected))
         IN  IF b.read = "none"      \* f"{pos:8.3f}" raises TypeError on None
             THEN DictSet(d1, name, Err(name, "format"))
             ELSE d1

\* one pass of "for det in detectors", lines 62-92
DetectorProbe(d, name, b) ==
    IF b.connected = "raise"
    THEN DictSet(d, name, Err(name, "fault"))
    ELSE LET d1 == DictSet(d, name, Rec(name, b.connected))
         IN  IF b.kind = "scaler" /\ b.read = "raise"   \* det.channels raises
             THEN DictSet(d1, name, Err(name, "fault"))
             ELSE d1      \* a fault of det.cam.array_size.get() is swallowed

\* one pass of "for dev in baseline", lines 99-115
BaselineProbe(d, name, b) ==
    IF b.read = "raise" \/ b.connected = "raise"
    THEN DictSet(d, name, Err(name, "fault"))
    ELSE DictSet(d, name, Rec(name, b.connected))

\* mutant: r.get('connected', True), an error entry counts as connected
CountConnected_DefaultTrue(d) ==
    CountIf(d, {r \in {d[i] : i \in 1..Len(d)} : r.connected # "False"})

\* sum(1 for r in results.values() if r.get('connected', False))
CountConnected(d) ==
    CountIf(d, {r \in {d[i] : i \in 1..Len(d)} : r.connected = "True"})

\* mutant: a suite that found no device fails
ConnectivityVerdict_NonEmpty(mr, dr, br, ms, ds, bs) ==
    LET total_devices == Len(ms) + Len(ds) + Len(bs)
        connected_devices == CountConnected(mr) + CountConnected(dr) + CountConnected(br)
    IN  IF connected_devices = total_devices /\ total_devices > 0 THEN "True" ELSE "False"

\* connected_devices == total_devices, lines 132-140
ConnectivityVerdict(mr, dr, br, ms, ds, bs) ==
    LET total_devices == Len(ms) + Len(ds) + Len(bs)
        connected_devices == CountConnected(mr) + CountConnected(dr) + CountConnected(br)
    IN  IF connected_devices = total_devices THEN "True" ELSE "False"

\* whether the device answered every read the probe makes and is connected
Reachable(label, b) ==
    /\ b.connected = "True"
    /\ IF label = "motors" THEN b.read = "value"
       ELSE IF label = "detectors" THEN ~(b.kind = "scaler" /\ b.read = "raise")
       ELSE b.read # "raise"

Tally(it, ok) ==
    IF ok THEN [it EXCEPT !.passed = @ + 1] ELSE [it EXCEPT !.failed = @ + 1]

NoWhy == [reason |-> "none", phase |-> "none"]
NoDevices == [reason |-> "nodevices", phase |-> "none"]
Unavailable == [reason |-> "unavailable", phase |-> "none"]
FaultIn(phase) == [reason |-> "fault", phase |-> phase]

\* the suite function returns v (or raises): its locals go out of scope
ReturnWhy(v, w) ==
    /\ pc' = "ret"
    /\ ret' = v
    /\ why' = w
    /\ motors' = <<>> /\ detectors' = <<>> /\ baseline' = <<>>
    /\ motor_results' = <<>> /\ detector_results' = <<>> /\ baseline_results' = <<>>
    /\ idx' = 0 /\ successful' = 0 /\ nitems' = 0 /\ initial_runs' = 0
    /\ original_mode' = "False" /\ missing_packages' = <<>> /\ initial_pos' = 0
    /\ lastProbe' = NoProbe

Return(v) == ReturnWhy(v, NoWhy)

\* lines 18-31: load the instrument, look the motors up; any exception is
\* caught by the outer handler (line 142), which returns False
DcLoad ==
    /\ pc = "dc_load"
    /\ \/ /\ pc' = "dc_motors"
          /\ motors' = DevicesByLabelGet("motors")
          /\ idx' = 1
          /\ UNCHANGED why
       \/ /\ pc' = "dc_except"           \* the instrument does not load
          /\ why' = Unavailable
          /\ UNCHANGED <<motors, idx>>
       \/ /\ pc' = "dc_except"           \* the lookup raises
          /\ why' = FaultIn("motors")
          /\ UNCHANGED <<motors, idx>>
    /\ UNCHANGED <<envVars, mainVars, engineVars, items, ret, detectors, baseline,
                   motor_results, detector_results, baseline_results, successful, nitems,
                   initial_runs, original_mode, missing_packages, initial_pos, lastProbe>>

\* mutant: no try/except around one motor, a raising read ends the suite
DcProbeMotor_NoHandler ==
    /\ pc = "dc_motors" /\ idx <= Len(motors)
    /\ \E b \in BehavioursOf("motors") :
          /\ lastProbe' = [label |-> "motors", name |-> motors[idx], beh |-> b]
          /\ IF b.read = "raise" \/ b.connected = "raise"
             THEN /\ pc' = "dc_except"
                  /\ UNCHANGED <<motor_results, idx, items>>
             ELSE /\ motor_results' = MotorProbe(motor_results, motors[idx], b)
                  /\ items' = Tally(items, Reachable("motors", b))
                  /\ idx' = idx + 1
                  /\ pc' = pc
    /\ UNCHANGED <<envVars, mainVars, engineVars, ret, devLists, why,
                   detector_results, baseline_results, successful, nitems, initial_runs,
                   original_mode, missing_packages, initial_pos>>

DcProbeMotor ==
    /\ pc = "dc_motors" /\ idx <= Len(motors)
    /\ \/ /\ \E b \in BehavioursOf("motors") :
                /\ motor_results' = MotorProbe(motor_results, motors[idx], b)
                /\ lastProbe' = [label |-> "motors", name |-> motors[idx], beh |-> b]
                /\ items' = Tally(items, Reachable("motors", b))
          /\ idx' = idx + 1
          /\ UNCHANGED pc
       \/ /\ pc' = "hung"               \* a read that never returns: no timeout is set
          /\ UNCHANGED <<motor_results, lastProbe, items, idx>>
    /\ UNCHANGED <<envVars, mainVars, engineVars, ret, devLists, why,
                   detector_results, baseline_results, successful, nitems, initial_runs, original_mode, missing_packages, initial_pos>>

\* lines 57-60
DcGetDetectors ==
    /\ pc = "dc_motors" /\ idx > Len(motors)
    /\ \/ /\ pc' = "dc_detectors"
          /\ detectors' = DevicesByLabelGet("detectors")
          /\ idx' = 1
          /\ UNCHANGED why
       \/ /\ pc' = "dc_except"           \* the lookup raises
          /\ why' = FaultIn("detectors")
          /\ UNCHANGED <<detectors, idx>>
    /\ UNCHANGED <<envVars, mainVars, engineVars, items, ret, motors, baseline,
                   motor_results, detector_results, baseline_results, successful, nitems,
                   initial_runs, original_mode, missing_packages, initial_pos, lastProbe>>

DcProbeDetector ==
    /\ pc = "dc_detectors" /\ idx <= Len(detectors)
    /\ \/ /\ \E b \in BehavioursOf("detectors") :
                /\ detector_results' = DetectorProbe(detector_results, detectors[idx], b)
                /\ lastProbe' = [label |-> "detectors", name |-> detectors[idx], beh |-> b]
                /\ items' = Tally(items, Reachable("detectors", b))
          /\ idx' = idx + 1
          /\ UNCHANGED pc
       \/ /\ pc' = "hung"               \* a read that never returns: no timeout is set
          /\ UNCHANGED <<detector_results, lastProbe, items, idx>>
    /\ UNCHANGED <<envVars, mainVars, engineVars, ret, devLists, why,
                   motor_results, baseline_results, successful, nitems, initial_runs, original_mode, missing_packages, initial_pos>>

\* lines 94-97
DcGetBaseline ==
    /\ pc = "dc_detectors" /\ idx > Len(detectors)
    /\ \/ /\ pc' = "dc_baseline"
          /\ baseline' = DevicesByLabelGet("baseline")
          /\ idx' = 1
          /\ UNCHANGED why
       \/ /\ pc' = "dc_except"           \* the lookup raises
          /\ why' = FaultIn("baseline")
          /\ UNCHANGED <<baseline, idx>>
    /\ UNCHANGED <<envVars, mainVars, engineVars, items, ret, motors, detectors,
                   motor_results, detector_results, baseline_results, successful, nitems,
                   initial_runs, original_mode, missing_packages, initial_pos, lastProbe>>

DcProbeBaseline ==
    /\ pc = "dc_baseline" /\ idx <= Len(baseline)
    /\ \/ /\ \E b \in BehavioursOf("baseline") :
                /\ baseline_results' = BaselineProbe(baseline_results, baseline[idx], b)
                /\ lastProbe' = [label |-> "baseline", name |-> baseline[idx], beh |-> b]
                /\ items' = Tally(items, Reachable("baseline", b))
          /\ idx' = idx + 1
          /\ UNCHANGED pc
       \/ /\ pc' = "hung"               \* a read that never returns: no timeout is set
          /\ UNCHANGED <<baseline_results, lastProbe, items, idx>>
    /\ UNCHANGED <<envVars, mainVars, engineVars, ret, devLists, why,
                   motor_results, detector_results, successful, nitems, initial_runs, original_mode, missing_packages, initial_pos>>

\* lines 117-140: the summary; the counts stay readable until the function returns
DcSummary ==
    /\ pc = "dc_baseline" /\ idx > Len(baseline)
    /\ pc' = "dc_return"
    /\ successful' = CountConnected(motor_results) + CountConnected(detector_results)
                       + CountConnected(baseline_results)
    /\ nitems' = Len(motors) + Len(detectors) + Len(baseline)
    /\ lastProbe' = NoProbe
    /\ UNCHANGED <<envVars, mainVars, engineVars, ret, devLists, idx, items, why,
                   motor_results, detector_results, baseline_results, initial_runs,
                   original_mode, missing_packages, initial_pos>>

DcReturn ==
    /\ pc = "dc_return"
    /\ Return(ConnectivityVerdict(motor_results, detector_results, baseline_results,
                                  motors, detectors, baseline))
    /\ UNCHANGED <<envVars, mainVars, engineVars, items>>

\* mutant: the outer handler lets the suite pass
DcExcept_Pass ==
    /\ pc = "dc_except"
    /\ ReturnWhy("True", why)
    /\ UNCHANGED <<envVars, mainVars, engineVars, items>>

\* lines 142-144: except Exception: "Failed to load instrument"; return False
DcExcept ==
    /\ pc = "dc_except"
    /\ ReturnWhy("False", why)
    /\ UNCHANGED <<envVars, mainVars, engineVars, items>>

\* ------------------------------------------------------------ the RunEngine

NoCall == [plan |-> "none", ok |-> "none", fail |-> "none", connected |-> TRUE]

\* mutant: the plan is handed to the engine and the caller goes on at once
Submit_Async(plan, ok, fail) ==
    /\ RE' = [RE EXCEPT !.inflight = @ + 1, !.calls = @ + 1]
    /\ \E c \in BOOLEAN :
          cont' = [plan |-> plan, ok |-> ok, fail |-> fail, connected |-> c]
    /\ pc' = ok

\* RE(plan): the call is made; the code continues at ok when it returns and
\* at fail (the except clause around the call) when it raises.  "connected"
\* is whether the plan's target devices are connected when the call is made:
\* no caller looks at it except test_plan_execution, for the detector only.
Submit(plan, ok, fail) ==
    /\ RE' = [RE EXCEPT !.inflight = @ + 1, !.calls = @ + 1]
    /\ \E c \in BOOLEAN :
          cont' = [plan |-> plan, ok |-> ok, fail |-> fail, connected |-> c]
    /\ pc' = "RE"

\* where a completed plan leaves motors[0], in units of move_amount
Moved(plan, p) ==
    IF plan = "mvr+" THEN p + 1
    ELSE IF plan = "mvr-" THEN p - 1
    ELSE p

\* bps.mvr is a plan stub: it opens no run, so nothing reaches the catalog
OpensRun(plan) == plan \notin {"mvr+", "mvr-"}

\* Where the motor stands when the engine returns: on the target, or short of
\* it by the whole step.  The engine returns when the motor reports that it
\* is done, and no caller compares the position with the target.
Landed(plan, p) == {Moved(plan, p), p}

\* The engine runs the plan in flight and returns or raises.  Whether the run
\* reaches the catalog is the catalog subscription's business; a plan that
\* raises may have moved the motor or not.
RECall ==
    /\ pc = "RE"
    /\ \/ /\ RE' = [RE EXCEPT !.inflight = @ - 1]
          /\ \E saved \in 0..1 : cat' = cat + (IF OpensRun(cont.plan) THEN saved ELSE 0)
          /\ \/ /\ pc' = cont.ok
                /\ position' \in Landed(cont.plan, position)
             \/ /\ pc' = cont.fail
                /\ position' \in {position, Moved(cont.plan, position)}
          /\ cont' = NoCall
       \/ /\ pc' = "hung"               \* the call never returns: RE(...) is given no timeout
          /\ UNCHANGED <<RE, cat, position, cont>>
    /\ UNCHANGED <<envVars, mainVars, ret, devLists, connVars, loopVars, items>>

\* ------------------------------------------- test_devices.test_device_operations

\* lines 152-169: load, RE = globals().get('RE'), look the motors up
DoLoad ==
    /\ pc = "do_load"
    /\ \/ /\ motors' = DevicesByLabelGet("motors")
          /\ pc' = IF motors' # <<>> THEN "do_motion" ELSE "do_detectors"
          /\ UNCHANGED <<ret, detectors, baseline, connVars, loopVars>>
       \/ ReturnWhy("False", Unavailable)  \* "RunEngine not available", or the outer handler
    /\ UNCHANGED <<envVars, mainVars, engineVars, items>>

\* lines 171-178: initial_pos = test_motor.position; RE(bps.mvr(test_motor, move_amount))
DoMotionStart ==
    /\ pc = "do_motion"
    /\ \/ /\ initial_pos' = position
          /\ Submit("mvr+", "do_motion_back", "do_motion_fail")
          /\ UNCHANGED <<cat, position>>
       \/ /\ pc' = "do_motion_fail"       \* the position read or its format raises
          /\ UNCHANGED <<engineVars, initial_pos>>
    /\ UNCHANGED <<envVars, mainVars, ret, devLists, connVars, idx, successful, nitems,
                   initial_runs, original_mode, missing_packages, items>>

\* lines 180-185: new_pos = test_motor.position; RE(bps.mvr(test_motor, -move_amount))
DoMotionBack ==
    /\ pc = "do_motion_back"
    /\ \/ /\ Submit("mvr-", "do_motion_done", "do_motion_fail")
          /\ UNCHANGED <<cat, position>>
       \/ /\ pc' = "do_motion_fail"
          /\ UNCHANGED engineVars
    /\ UNCHANGED <<envVars, mainVars, ret, devLists, connVars, loopVars, items>>

\* lines 187-189: final_pos = test_motor.position; "Motor motion test passed"
DoMotionDone ==
    /\ pc = "do_motion_done"
    /\ \/ /\ pc' = "do_detectors"
          /\ items' = Tally(items, TRUE)
       \/ /\ pc' = "do_motion_fail"
          /\ UNCHANGED items
    /\ UNCHANGED <<envVars, mainVars, engineVars, ret, devLists, connVars, loopVars>>

\* lines 191-192: except Exception: "Motor motion test failed"
DoMotionFail ==
    /\ pc = "do_motion_fail"
    /\ pc' = "do_detectors"
    /\ items' = Tally(items, FALSE)
    /\ UNCHANGED <<envVars, mainVars, engineVars, ret, devLists, connVars, loopVars>>

\* what test_device_operations returns once both operations were tried (line 209)
OperationsVerdict(it) == "True"

\* lines 194-202 (and 208-209 without detectors): RE(bp.count([test_detector], num=1))
DoCount ==
    /\ pc = "do_detectors"
    /\ \/ /\ DevicesByLabelGet("detectors") # <<>>
          /\ detectors' = DevicesByLabelGet("detectors")
          /\ Submit("count", "do_count_ok", "do_count_fail")
          /\ UNCHANGED <<cat, position, ret, motors, baseline, connVars, loopVars>>
       \/ /\ DevicesByLabelGet("detectors") = <<>>
          /\ Return(OperationsVerdict(items))
          /\ UNCHANGED engineVars
       \/ /\ ReturnWhy("False", FaultIn("detectors"))  \* the lookup raises: the outer handler
          /\ UNCHANGED engineVars
    /\ UNCHANGED <<envVars, mainVars, items>>

\* lines 203, 208-209
DoCountOk ==
    /\ pc = "do_count_ok"
    /\ items' = Tally(items, TRUE)
    /\ Return(OperationsVerdict(items'))
    /\ UNCHANGED <<envVars, mainVars, engineVars>>

\* lines 205-209
DoCountFail ==
    /\ pc = "do_count_fail"
    /\ items' = Tally(items, FALSE)
    /\ Return(OperationsVerdict(items'))
    /\ UNCHANGED <<envVars, mainVars, engineVars>>

\* --------------------------------------------- test_devices.test_data_collection

\* "if not (motors and detectors)": both lists hold a device
HaveDevices(ms, ds) == ms # <<>> /\ ds # <<>>

\* lines 221-251: load, "if not (RE and cat)", look the devices up, count the
\* runs, RE(bp.rel_scan(...)).  An empty catalog that defines __len__ is falsy.
DdStart ==
    /\ pc = "dd_load"
    /\ \/ /\ HaveDevices(DevicesByLabelGet("motors"), DevicesByLabelGet("detectors"))
          /\ motors' = DevicesByLabelGet("motors")
          /\ detectors' = DevicesByLabelGet("detectors")
          /\ initial_runs' = cat
          /\ Submit("rel_scan", "dd_check", "dd_fail")
          /\ UNCHANGED <<cat, position, ret, baseline, connVars, idx, successful,
                         nitems, original_mode, missing_packages, initial_pos, items>>
       \/ /\ ~HaveDevices(DevicesByLabelGet("motors"), DevicesByLabelGet("detectors"))
          /\ ReturnWhy("False", NoDevices)   \* "No motors or detectors available"
          /\ UNCHANGED <<engineVars, items>>
       \/ /\ ReturnWhy("False", Unavailable) \* RE or cat missing, or the outer handler
          /\ UNCHANGED <<engineVars, items>>
    /\ UNCHANGED <<envVars, mainVars>>

\* a comparison that also accepts an unchanged count
NewRuns_NonNegative(final_runs, initial) == final_runs - initial >= 0

\* "if new_runs > 0", lines 254-257
NewRuns(final_runs, initial) == final_runs - initial > 0

\* What cat[-1] answers: a run whose metadata and primary stream can be read,
\* one without metadata['start']['scan_id'], or one whose primary stream
\* cannot be read.
LatestRun == {"ok", "no_scan_id", "no_primary"}

\* lines 261-263 read the scan id and then the data keys of the primary stream
DdReadable(latest) == latest = "ok"

\* lines 253-268: the catalog is counted again; the latest run is read
DdCheck ==
    /\ pc = "dd_check"
    /\ \/ /\ NewRuns(cat, initial_runs)
          /\ \E latest \in LatestRun :
                IF DdReadable(latest)
                THEN Return("True") /\ items' = Tally(items, TRUE)
                ELSE ReturnWhy("False", FaultIn(latest)) /\ items' = Tally(items, FALSE)
       \/ /\ ~NewRuns(cat, initial_runs)
          /\ Return("False") /\ items' = Tally(items, FALSE)
    /\ UNCHANGED <<envVars, mainVars, engineVars>>

\* lines 270-272: the plan raised
DdFail ==
    /\ pc = "dd_fail"
    /\ Return("False")
    /\ items' = Tally(items, FALSE)
    /\ UNCHANGED <<envVars, mainVars, engineVars>>

\* ------------------------------------------------ test_plans.test_plan_simulation

\* plans_to_test, lines 58-74: sample_alignment needs two motors
PlansToTest(ms) ==
    <<"motor_characterization", "quick_scan", "detector_optimization">>
        \o (IF Len(ms) >= 2 THEN <<"sample_alignment">> ELSE <<>>)

\* getattr(RE, 'simulate_mode', False)
GetSimulateMode(re) == IF re.simulate_mode = "absent" THEN "False" ELSE re.simulate_mode

\* lines 18-51: find the instrument, look the devices up, switch simulation on
PsLoad ==
    /\ pc = "ps_load"
    /\ \/ /\ HaveDevices(DevicesByLabelGet("motors"), DevicesByLabelGet("detectors"))
          /\ motors' = DevicesByLabelGet("motors")
          /\ detectors' = DevicesByLabelGet("detectors")
          /\ original_mode' = GetSimulateMode(RE)
          /\ RE' = [RE EXCEPT !.simulate_mode = "True", !.before = RE.simulate_mode]
          /\ pc' = "ps_import"
          /\ UNCHANGED <<cont, cat, position, ret, baseline, connVars, idx, successful,
                         nitems, initial_runs, missing_packages, initial_pos>>
       \/ /\ ~HaveDevices(DevicesByLabelGet("motors"), DevicesByLabelGet("detectors"))
          /\ ReturnWhy("False", NoDevices)   \* "No motors or detectors available"
          /\ UNCHANGED engineVars
       \/ /\ ReturnWhy("False", Unavailable) \* no instrument package, or the outer handler
          /\ UNCHANGED engineVars
    /\ UNCHANGED <<envVars, mainVars, items>>

\* mutant: the finally clause switches simulation off
RestoreMode_Off(re, mode) == [re EXCEPT !.simulate_mode = "False", !.before = "unset"]

\* finally: RE.simulate_mode = original_mode.  "before" is history: what the
\* attribute was when test_plan_simulation switched simulation on, "absent"
\* for an engine without the attribute; it is kept while the function runs.
RestoreMode(re, mode) == [re EXCEPT !.simulate_mode = mode, !.before = "unset"]

\* lines 53-76: import the custom plans, build plans_to_test
PsImport ==
    /\ pc = "ps_import"
    /\ \/ /\ nitems' = Len(PlansToTest(motors))
          /\ idx' = 1 /\ successful' = 0
          /\ pc' = "ps_loop"
          /\ UNCHANGED <<RE, ret, devLists, connVars, initial_runs, original_mode, missing_packages, initial_pos>>
       \/ /\ ReturnWhy("False", Unavailable) \* ImportError, or another exception
          /\ RE' = RestoreMode(RE, original_mode)
    /\ UNCHANGED <<envVars, mainVars, cont, cat, position, items>>

\* lines 78-81: RE(plan_func(*args, **kwargs))
PsSubmit ==
    /\ pc = "ps_loop" /\ idx <= nitems
    /\ Submit(PlansToTest(motors)[idx], "ps_ok", "ps_fail")
    /\ UNCHANGED <<envVars, mainVars, cat, position, ret, devLists, connVars, loopVars, items>>

\* lines 82-83
PsOk ==
    /\ pc = "ps_ok"
    /\ successful' = successful + 1
    /\ idx' = idx + 1
    /\ items' = Tally(items, TRUE)
    /\ pc' = "ps_loop"
    /\ UNCHANGED <<envVars, mainVars, engineVars, ret, devLists, connVars, nitems,
                   initial_runs, original_mode, missing_packages, initial_pos>>

\* mutant: no try/except around one plan, the first fault ends the suite
PsFail_Abort ==
    /\ pc = "ps_fail"
    /\ Return("False")
    /\ RE' = RestoreMode(RE, original_mode)
    /\ items' = Tally(items, FALSE)
    /\ UNCHANGED <<envVars, mainVars, cont, cat, position>>

\* lines 84-85
PsFail ==
    /\ pc = "ps_fail"
    /\ idx' = idx + 1
    /\ items' = Tally(items, FALSE)
    /\ pc' = "ps_loop"
    /\ UNCHANGED <<envVars, mainVars, engineVars, ret, devLists, connVars, successful,
                   nitems, initial_runs, original_mode, missing_packages, initial_pos>>

\* return successful == len(list), lines 88, 186, 255
PlansVerdict(ok, n) == IF ok = n THEN "True" ELSE "False"

\* lines 87-95: the verdict, and the finally clause
PsReturn ==
    /\ pc = "ps_loop" /\ idx > nitems
    /\ Return(PlansVerdict(successful, nitems))
    /\ RE' = RestoreMode(RE, original_mode)
    /\ UNCHANGED <<envVars, mainVars, cont, cat, position, items>>

\* ------------------------------------------------- test_plans.test_built_in_plans

\* built_in_tests, lines 234-238
BuiltInTests == <<"count", "rel_scan", "scan">>

\* lines 201-240: building built_in_tests reads motor.position twice
BpLoad ==
    /\ pc = "bp_load"
    /\ \/ /\ HaveDevices(DevicesByLabelGet("motors"), DevicesByLabelGet("detectors"))
          /\ motors' = DevicesByLabelGet("motors")
          /\ detectors' = DevicesByLabelGet("detectors")
          /\ nitems' = Len(BuiltInTests)
          /\ idx' = 1 /\ successful' = 0
          /\ pc' = "bp_loop"
          /\ UNCHANGED <<ret, baseline, connVars, initial_runs, original_mode, missing_packages, initial_pos>>
       \/ /\ ~HaveDevices(DevicesByLabelGet("motors"), DevicesByLabelGet("detectors"))
          /\ ReturnWhy("False", NoDevices)
       \/ ReturnWhy("False", Unavailable)  \* no instrument, or the position read raises
    /\ UNCHANGED <<envVars, mainVars, engineVars, items>>

\* lines 242-245
BpSubmit ==
    /\ pc = "bp_loop" /\ idx <= nitems
    /\ Submit(BuiltInTests[idx], "bp_ok", "bp_fail")
    /\ UNCHANGED <<envVars, mainVars, cat, position, ret, devLists, connVars, loopVars, items>>

\* lines 246-249
BpOk ==
    /\ pc = "bp_ok"
    /\ successful' = successful + 1
    /\ idx' = idx + 1
    /\ items' = Tally(items, TRUE)
    /\ pc' = "bp_loop"
    /\ UNCHANGED <<envVars, mainVars, engineVars, ret, devLists, connVars, nitems,
                   initial_runs, original_mode, missing_packages, initial_pos>>

\* lines 251-252
BpFail ==
    /\ pc = "bp_fail"
    /\ idx' = idx + 1
    /\ items' = Tally(items, FALSE)
    /\ pc' = "bp_loop"
    /\ UNCHANGED <<envVars, mainVars, engineVars, ret, devLists, connVars, successful,
                   nitems, initial_runs, original_mode, missing_packages, initial_pos>>

\* lines 254-255
BpReturn ==
    /\ pc = "bp_loop" /\ idx > nitems
    /\ Return(PlansVerdict(successful, nitems))
    /\ UNCHANGED <<envVars, mainVars, engineVars, items>>

\* ------------------------------------------------- test_plans.test_plan_execution

\* safe_tests, lines 157-163
SafeTests == <<"quick_scan", "motor_characterization">>

\* lines 106-165: find the instrument, look the devices up, read the motor's
\* position and the detector's connected, import the custom plans
PeLoad ==
    /\ pc = "pe_load"
    /\ \/ /\ HaveDevices(DevicesByLabelGet("motors"), DevicesByLabelGet("detectors"))
          /\ motors' = DevicesByLabelGet("motors")
          /\ detectors' = DevicesByLabelGet("detectors")
          /\ nitems' = Len(SafeTests)
          /\ idx' = 1 /\ successful' = 0
          /\ pc' = "pe_loop"
          /\ UNCHANGED <<ret, baseline, connVars, initial_runs, original_mode, missing_packages, initial_pos>>
       \/ /\ ~HaveDevices(DevicesByLabelGet("motors"), DevicesByLabelGet("detectors"))
          /\ ReturnWhy("False", NoDevices)
       \/ ReturnWhy("False", Unavailable)  \* no instrument, detector not connected, a read or the import raises
    /\ UNCHANGED <<envVars, mainVars, engineVars, items>>

\* lines 167-172: initial_pos = motor.position; RE(plan_func(*args, **kwargs))
PeSubmit ==
    /\ pc = "pe_loop" /\ idx <= nitems
    /\ \/ /\ Submit(SafeTests[idx], "pe_ok", "pe_fail")
          /\ UNCHANGED <<cat, position>>
       \/ /\ pc' = "pe_fail"              \* the position read raises
          /\ UNCHANGED engineVars
    /\ UNCHANGED <<envVars, mainVars, ret, devLists, connVars, loopVars, items>>

\* lines 174-180: final_pos = motor.position; successful_tests += 1
PeOk ==
    /\ pc = "pe_ok"
    /\ \/ /\ successful' = successful + 1
          /\ idx' = idx + 1
          /\ items' = Tally(items, TRUE)
          /\ pc' = "pe_loop"
       \/ /\ pc' = "pe_fail"              \* the position read or its format raises
          /\ UNCHANGED <<successful, idx, items>>
    /\ UNCHANGED <<envVars, mainVars, engineVars, ret, devLists, connVars, nitems,
                   initial_runs, original_mode, missing_packages, initial_pos>>

\* lines 182-183
PeFail ==
    /\ pc = "pe_fail"
    /\ idx' = idx + 1
    /\ items' = Tally(items, FALSE)
    /\ pc' = "pe_loop"
    /\ UNCHANGED <<envVars, mainVars, engineVars, ret, devLists, connVars, successful,
                   nitems, initial_runs, original_mode, missing_packages, initial_pos>>

\* lines 185-186
PeReturn ==
    /\ pc = "pe_loop" /\ idx > nitems
    /\ Return(PlansVerdict(successful, nitems))
    /\ UNCHANGED <<envVars, mainVars, engineVars, items>>

\* ------------------------------------------- validate_setup.check_ioc_containers

RequiredContainers == <<"adsim_ioc", "gp_ioc">>

\* len(running_containers) == len(required_containers), lines 41-47
ContainersVerdict(running) ==
    IF Cardinality(running) = Len(RequiredContainers) THEN "True" ELSE "False"

\* lines 20-54: podman ps, then one line per required container
VcRun ==
    /\ pc = "vc_run"
    /\ \/ \E running \in SUBSET {RequiredContainers[i] : i \in 1..Len(RequiredContainers)} :
             /\ items' = [passed |-> Cardinality(running),
                          failed |-> Len(RequiredContainers) - Cardinality(running)]
             /\ Return(ContainersVerdict(running))
       \/ /\ ReturnWhy("False", Unavailable)    \* podman missing, fails or raises
          /\ UNCHANGED items
    /\ UNCHANGED <<envVars, mainVars, engineVars>>

\* --------------------------------------- validate_setup.check_python_environment

RequiredPackages == <<"bluesky", "ophyd", "databroker", "apsbits">>

\* What the import system answers for a package: find_spec raises, returns
\* None, or finds it; a package found may still fail on import.
PackageStates == {"ok", "import_error", "no_spec", "spec_raises"}

\* mutant: a package that fails on import counts as missing
CheckPackage_ImportFails(missing, package, st) ==
    IF st # "ok" THEN Append(missing, package) ELSE missing

\* one pass of the loop, lines 69-85
CheckPackage(missing, package, st) ==
    IF st \in {"no_spec", "spec_raises"} THEN Append(missing, package) ELSE missing

VpCheck ==
    /\ pc = "vp_loop" /\ idx < Len(RequiredPackages)
    /\ \E st \in PackageStates :
          /\ missing_packages' = CheckPackage(missing_packages, RequiredPackages[idx + 1], st)
          /\ items' = Tally(items, st \in {"ok", "import_error"})
          /\ lastProbe' = [label |-> "packages", name |-> idx + 1,
                           beh |-> [read |-> st, connected |-> "True", kind |-> "plain"]]
    /\ idx' = idx + 1
    /\ UNCHANGED <<envVars, mainVars, engineVars, pc, ret, devLists, motor_results,
                   detector_results, baseline_results, why, successful,
                   nitems, initial_runs, original_mode, initial_pos>>

\* "if missing_packages", lines 87-93
PackagesVerdict(missing) == IF missing # <<>> THEN "False" ELSE "True"

VpReturn ==
    /\ pc = "vp_loop" /\ idx = Len(RequiredPackages)
    /\ Return(PackagesVerdict(missing_packages))
    /\ UNCHANGED <<envVars, mainVars, engineVars, items>>

\* ----------------------------------------- validate_setup.check_instrument_package

\* lines 99-142.  Path(spec.origin), line 133, is outside every try: a startup
\* module without an origin makes the function raise to its caller.
ViCheck ==
    /\ pc = "vi_find"
    /\ \/ Return("True") /\ items' = Tally(items, TRUE)
       \/ Return("False") /\ items' = Tally(items, FALSE)  \* no package, no startup module
       \/ ReturnWhy("raise", FaultIn("none")) /\ items' = Tally(items, FALSE)
    /\ UNCHANGED <<envVars, mainVars, engineVars>>

\* ----------------------------------------- validate_setup.test_epics_connectivity

\* test_pvs, lines 154-158
SetupTestPvs == <<"gp:m1.DESC", "gp:scaler1.DESC", "adsim:cam1:Acquire">>

\* what a PV does: wait_for_connection returns True or False (the timeout) or
\* raises; get() returns a value, None, or raises
PvBehaviours ==
    {b \in [wait : {"True", "False", "raise"}, get : {"value", "none", "raise"}] :
        b.wait # "True" => b.get = "none"}     \* get() is called after a connection only

\* mutant: the result of wait_for_connection is not looked at
PvConnected_NoWait(b) == b.get # "raise"

\* whether the code counts the PV as connected (lines 163-172; explore_iocs 63-71)
PvConnected(b) == b.wait = "True" /\ b.get # "raise"

\* mutant: without PyEPICS the test fails, as in explore_iocs
VeImport_Strict ==
    /\ pc = "ve_import"
    /\ IF EPICS_AVAILABLE
       THEN /\ pc' = "ve_loop"
            /\ idx' = 0 /\ successful' = 0
            /\ nitems' = Len(SetupTestPvs)
            /\ UNCHANGED <<ret, devLists, connVars, initial_runs, original_mode,
                           missing_packages, initial_pos>>
       ELSE ReturnWhy("False", Unavailable)
    /\ UNCHANGED <<envVars, mainVars, engineVars, items>>

\* lines 148-160: without PyEPICS the test is skipped and passes
VeImport ==
    /\ pc = "ve_import"
    /\ IF EPICS_AVAILABLE
       THEN /\ pc' = "ve_loop"
            /\ idx' = 0 /\ successful' = 0
            /\ nitems' = Len(SetupTestPvs)
            /\ UNCHANGED <<ret, devLists, connVars, initial_runs, original_mode,
                           missing_packages, initial_pos>>
       ELSE ReturnWhy("True", Unavailable)
    /\ UNCHANGED <<envVars, mainVars, engineVars, items>>

\* one pass of the loop, lines 162-172
VeProbe ==
    /\ pc = "ve_loop" /\ idx < nitems
    /\ \E b \in PvBehaviours :
          /\ successful' = successful + (IF PvConnected(b) THEN 1 ELSE 0)
          /\ items' = Tally(items, b.wait = "True" /\ b.get # "raise")
          /\ lastProbe' = [label |-> "pvs", name |-> idx + 1,
                           beh |-> [read |-> b.get, connected |-> b.wait, kind |-> "plain"]]
    /\ idx' = idx + 1
    /\ UNCHANGED <<envVars, mainVars, engineVars, pc, ret, devLists, nitems, why,
                   motor_results, detector_results, baseline_results,
                   initial_runs, original_mode, missing_packages, initial_pos>>

\* connected == len(test_pvs), validate_setup 174-180, explore_iocs 73-79
PvVerdict(connected, n) == IF connected = n THEN "True" ELSE "False"

VeReturn ==
    /\ pc = "ve_loop" /\ idx = nitems
    /\ Return(PvVerdict(successful, nitems))
    /\ UNCHANGED <<envVars, mainVars, engineVars, items>>

\* ----------------------------------------- validate_setup.test_instrument_loading

RequiredObjects == {"RE", "cat"}

\* "if missing_objects", lines 220-230
LoadingVerdict(missing_objects) == IF missing_objects # {} THEN "False" ELSE "True"

\* lines 186-234
VlCheck ==
    /\ pc = "vl_find"
    /\ \/ \E missing_objects \in SUBSET RequiredObjects :
             /\ items' = [passed |-> Cardinality(RequiredObjects \ missing_objects),
                          failed |-> Cardinality(missing_objects)]
             /\ Return(LoadingVerdict(missing_objects))
       \/ /\ ReturnWhy("False", Unavailable)    \* no instrument package, or the import raises
          /\ UNCHANGED items
    /\ UNCHANGED <<envVars, mainVars, engineVars>>

\* --------------------------------------- validate_setup.test_device_functionality

\* lines 240-278: find the instrument, look the devices up, RE(bp.count(...))
VfStart ==
    /\ pc = "vf_find"
    /\ \/ /\ HaveDevices(DevicesByLabelGet("motors"), DevicesByLabelGet("detectors"))
          /\ motors' = DevicesByLabelGet("motors")
          /\ detectors' = DevicesByLabelGet("detectors")
          /\ Submit("count", "vf_ok", "vf_fail")
          /\ UNCHANGED <<cat, position, ret, baseline, connVars, loopVars>>
       \/ /\ ~HaveDevices(DevicesByLabelGet("motors"), DevicesByLabelGet("detectors"))
          /\ ReturnWhy("False", NoDevices)   \* "No motors or detectors available"
          /\ UNCHANGED engineVars
       \/ /\ ReturnWhy("False", Unavailable) \* no instrument package, or a handler
          /\ UNCHANGED engineVars
    /\ UNCHANGED <<envVars, mainVars, items>>

\* lines 279-287: the count returned; position = motor.position
VfOk ==
    /\ pc = "vf_ok"
    /\ \/ Return("True") /\ items' = Tally(items, TRUE)
       \/ Return("False") /\ items' = Tally(items, FALSE)   \* the position read raises
    /\ UNCHANGED <<envVars, mainVars, engineVars>>

\* lines 292-294
VfFail ==
    /\ pc = "vf_fail"
    /\ Return("False")
    /\ items' = Tally(items, FALSE)
    /\ UNCHANGED <<envVars, mainVars, engineVars>>

\* ------------------------------------------- validate_setup.test_data_collection

\* lines 304-345: count the runs, look the detectors up, RE(bp.count(...))
VdStart ==
    /\ pc = "vd_find"
    /\ \/ /\ DevicesByLabelGet("detectors") # <<>>
          /\ detectors' = DevicesByLabelGet("detectors")
          /\ initial_runs' = cat
          /\ Submit("count", "vd_check", "vd_fail")
          /\ UNCHANGED <<cat, position, ret, motors, baseline, connVars, idx, successful,
                         nitems, original_mode, missing_packages, initial_pos>>
       \/ /\ DevicesByLabelGet("detectors") = <<>>
          /\ ReturnWhy("False", NoDevices)   \* "No detectors available for testing"
          /\ UNCHANGED engineVars
       \/ /\ ReturnWhy("False", Unavailable) \* no instrument package, or the handler
          /\ UNCHANGED engineVars
    /\ UNCHANGED <<envVars, mainVars, items>>

\* lines 354-356 read the scan id only
VdReadable(latest) == latest # "no_scan_id"

\* lines 347-362
VdCheck ==
    /\ pc = "vd_check"
    /\ \/ /\ NewRuns(cat, initial_runs)
          /\ \E latest \in LatestRun :
                IF VdReadable(latest)
                THEN Return("True") /\ items' = Tally(items, TRUE)
                ELSE ReturnWhy("False", FaultIn(latest)) /\ items' = Tally(items, FALSE)
       \/ /\ ~NewRuns(cat, initial_runs)
          /\ Return("False") /\ items' = Tally(items, FALSE)
    /\ UNCHANGED <<envVars, mainVars, engineVars>>

\* lines 364-366
VdFail ==
    /\ pc = "vd_fail"
    /\ Return("False")
    /\ items' = Tally(items, FALSE)
    /\ UNCHANGED <<envVars, mainVars, engineVars>>

\* --------------------------------------- explore_iocs.IOCExplorer.test_connectivity

\* test_pvs, line 58
ExplorerTestPvs == <<"gp:m1.DESC", "adsim:cam1:Acquire">>

\* lines 54-61; without PyEPICS the test fails
ExStart ==
    /\ pc = "ex_connectivity"
    /\ IF EPICS_AVAILABLE
       THEN /\ pc' = "ex_loop"
            /\ idx' = 0 /\ successful' = 0
            /\ nitems' = Len(ExplorerTestPvs)
            /\ UNCHANGED <<ret, devLists, connVars, initial_runs, original_mode,
                           missing_packages, initial_pos>>
       ELSE ReturnWhy("False", Unavailable)
    /\ UNCHANGED <<envVars, mainVars, engineVars, items>>

\* mutant: a PV that did not answer is tried again
ExProbe_Retry ==
    /\ pc = "ex_loop" /\ idx < nitems
    /\ \E b \in PvBehaviours :
          /\ successful' = successful + (IF PvConnected(b) THEN 1 ELSE 0)
          /\ items' = Tally(items, b.wait = "True" /\ b.get # "raise")
          /\ lastProbe' = [label |-> "pvs", name |-> idx + 1,
                           beh |-> [read |-> b.get, connected |-> b.wait, kind |-> "plain"]]
          /\ idx' = IF PvConnected(b) THEN idx + 1 ELSE idx
    /\ UNCHANGED <<envVars, mainVars, engineVars, pc, ret, devLists, nitems, why,
                   motor_results, detector_results, baseline_results,
                   initial_runs, original_mode, missing_packages, initial_pos>>

\* one pass of the loop, lines 62-71
ExProbe ==
    /\ pc = "ex_loop" /\ idx < nitems
    /\ \E b \in PvBehaviours :
          /\ successful' = successful + (IF PvConnected(b) THEN 1 ELSE 0)
          /\ items' = Tally(items, b.wait = "True" /\ b.get # "raise")
          /\ lastProbe' = [label |-> "pvs", name |-> idx + 1,
                           beh |-> [read |-> b.get, connected |-> b.wait, kind |-> "plain"]]
    /\ idx' = idx + 1
    /\ UNCHANGED <<envVars, mainVars, engineVars, pc, ret, devLists, nitems, why,
                   motor_results, detector_results, baseline_results,
                   initial_runs, original_mode, missing_packages, initial_pos>>

\* lines 73-79
ExReturn ==
    /\ pc = "ex_loop" /\ idx = nitems
    /\ Return(PvVerdict(successful, nitems))
    /\ UNCHANGED <<envVars, mainVars, engineVars, items>>

\* explore_iocs.main, lines 369-371: sys.exit(0 if success else 1)
ExExit ==
    /\ pc = "ret" /\ script = "explore_iocs"
    /\ exitCode' = IF ret = "True" THEN 0 ELSE 1
    /\ pc' = "done"
    /\ UNCHANGED <<envVars, engineVars, suiteIdx, results, started, report, returned,
                   ret, devLists, connVars, loopVars, items>>

\* --------------------------------------- explore_iocs.IOCExplorer.test_device_motion

\* lines 222-248: without PyEPICS, without a connection, or when the position
\* read or the target sum raises, False; else the planned move is printed
MotionVerdict(b) ==
    IF EPICS_AVAILABLE /\ b.wait = "True" /\ b.get = "value" THEN "True" ELSE "False"

\* mutant: the planned move is written to the motor
ExMotion_Moves ==
    /\ pc = "ex_motion"
    /\ \E b \in PvBehaviours :
          /\ ret' = MotionVerdict(b)
          /\ position' = IF MotionVerdict(b) = "True" THEN position + 1 ELSE position
    /\ pc' = "ex_motion_ret"
    /\ UNCHANGED <<envVars, mainVars, RE, cont, cat, devLists, connVars, loopVars, items>>

\* main, lines 421-424: --test-device with a motor PV; the .RBV field is read
\* and the move is reported, nothing is written
ExMotion ==
    /\ pc = "ex_motion"
    /\ \E b \in PvBehaviours : ret' = MotionVerdict(b)
    /\ pc' = "ex_motion_ret"
    /\ UNCHANGED <<envVars, mainVars, engineVars, devLists, connVars, loopVars, items>>

\* main ignores what test_device_motion returned and runs to its end
ExMotionEnd ==
    /\ pc = "ex_motion_ret"
    /\ exitCode' = 0
    /\ pc' = "done"
    /\ UNCHANGED <<envVars, engineVars, suiteIdx, results, started, report, returned,
                   ret, devLists, connVars, loopVars, items>>

\* ------------------------------------------------------- the orchestrators

\* "for test_name, test_func in tests": the next test function is called
\* (test_devices.py 287-290, test_plans.py 274-276, validate_setup.py 386-388)
StartSuite ==
    /\ pc = "main" /\ suiteIdx <= Len(Tests(script))
    /\ started' = Append(started, Tests(script)[suiteIdx])
    /\ pc' = Entry(script, Tests(script)[suiteIdx])
    /\ items' = [passed |-> 0, failed |-> 0]
    /\ UNCHANGED <<envVars, engineVars, suiteIdx, results, exitCode, report, returned,
                   ret, devLists, connVars, loopVars>>

\* mutant: the loop breaks at the first failing test
RecordResult_Break ==
    /\ pc = "ret" /\ ret \in {"True", "False"} /\ script # "explore_iocs"
    /\ results' = Append(results, [name |-> Tests(script)[suiteIdx], success |-> (ret = "True")])
    /\ report' = [failed |-> report.failed \/ items.failed > 0,
                  empty |-> report.empty \/ items.passed + items.failed = 0]
    /\ suiteIdx' = IF ret = "True" THEN suiteIdx + 1 ELSE Len(Tests(script)) + 1
    /\ pc' = "main" /\ ret' = "none"
    /\ returned' = [allTrue |-> returned.allTrue /\ ret = "True",
                    raised |-> returned.raised \/ ret = "raise"]
    /\ why' = NoWhy
    /\ UNCHANGED <<envVars, engineVars, exitCode, started, devLists, motor_results,
                   detector_results, baseline_results, lastProbe, loopVars, items>>

\* results.append((test_name, success))
RecordResult ==
    /\ pc = "ret" /\ ret \in {"True", "False"} /\ script # "explore_iocs"
    /\ results' = Append(results, [name |-> Tests(script)[suiteIdx], success |-> (ret = "True")])
    /\ report' = [failed |-> report.failed \/ items.failed > 0,
                  empty |-> report.empty \/ items.passed + items.failed = 0]
    /\ suiteIdx' = suiteIdx + 1
    /\ pc' = "main" /\ ret' = "none"
    /\ returned' = [allTrue |-> returned.allTrue /\ ret = "True",
                    raised |-> returned.raised \/ ret = "raise"]
    /\ why' = NoWhy
    /\ UNCHANGED <<envVars, engineVars, exitCode, started, devLists, motor_results,
                   detector_results, baseline_results, lastProbe, loopVars, items>>

\* except Exception as e: results.append((test_name, False))
RecordException ==
    /\ pc = "ret" /\ ret = "raise" /\ script # "explore_iocs"
    /\ results' = Append(results, [name |-> Tests(script)[suiteIdx], success |-> FALSE])
    /\ report' = [failed |-> report.failed \/ items.failed > 0,
                  empty |-> report.empty \/ items.passed + items.failed = 0]
    /\ suiteIdx' = suiteIdx + 1
    /\ pc' = "main" /\ ret' = "none"
    /\ returned' = [allTrue |-> returned.allTrue /\ ret = "True",
                    raised |-> returned.raised \/ ret = "raise"]
    /\ why' = NoWhy
    /\ UNCHANGED <<envVars, engineVars, exitCode, started, devLists, motor_results,
                   detector_results, baseline_results, lastProbe, loopVars, items>>

\* mutant: passed += 1 outside the "if success"
PassedCount_All(rs) == Len(rs)

\* passed: the number of results whose success is true
PassedCount(rs) == CountIf(rs, {r \in {rs[i] : i \in 1..Len(rs)} : r.success})

\* mutant: the "good setup" threshold of the recommendations decides the exit code
ExitStatus_Threshold(rs) == IF PassedCount(rs) * 10 >= Len(rs) * 8 THEN 0 ELSE 1

\* return 0 if passed == len(results) else 1; validate_setup: sys.exit(0 if success else 1)
ExitStatus(rs) == IF PassedCount(rs) = Len(rs) THEN 0 ELSE 1

\* the final summary and the process exit
MainSummary ==
    /\ pc = "main" /\ suiteIdx > Len(Tests(script))
    /\ exitCode' = ExitStatus(results)
    /\ pc' = "done"
    /\ UNCHANGED <<envVars, engineVars, suiteIdx, results, started, report, returned,
                   ret, devLists, connVars, loopVars, items>>

\* ---------------------------------------------------------- specification

Registries ==
    {r \in [motors : {Ids(n) : n \in 0..MaxDevices},
            detectors : {Ids(n) : n \in 0..MaxDevices},
            baseline : {Ids(n) : n \in 0..MaxDevices}] :
        Len(r.motors) + Len(r.detectors) + Len(r.baseline) <= MaxDevices}

\* the labels an entry point looks up
LabelsOf(s) ==
    IF s = "test_devices" THEN Labels
    ELSE IF s = "explore_iocs" THEN {}
    ELSE {"motors", "detectors"}

Init ==
    /\ script \in Scripts
    /\ registry \in {r \in Registries : \A l \in Labels : l \notin LabelsOf(script) => r[l] = <<>>}
    /\ registered \in {Labels, {l \in Labels : registry[l] # <<>>}}
    /\ EPICS_AVAILABLE \in (IF script \in {"validate_setup", "explore_iocs"}
                            THEN BOOLEAN ELSE {TRUE})
    /\ pc \in (IF script = "explore_iocs" THEN {"ex_connectivity", "ex_motion"} ELSE {"main"})
    /\ suiteIdx = 1 /\ results = <<>> /\ ret = "none"
    /\ motors = <<>> /\ detectors = <<>> /\ baseline = <<>>
    /\ idx = 0 /\ successful = 0 /\ nitems = 0 /\ initial_runs = 0
    /\ original_mode = "False" /\ missing_packages = <<>> /\ initial_pos = 0
    /\ motor_results = <<>> /\ detector_results = <<>> /\ baseline_results = <<>>
    /\ RE \in [inflight : {0}, calls : {0}, before : {"unset"},
                simulate_mode : IF script = "test_plans"
                                THEN {"absent", "False", "True"} ELSE {"absent"}]
    /\ cont = NoCall
    /\ cat \in (IF script = "explore_iocs" THEN {0} ELSE 0..MaxRuns)
    /\ position = 0
    /\ exitCode = NoExit
    /\ started = <<>> /\ lastProbe = NoProbe /\ why = NoWhy
    /\ returned = [allTrue |-> TRUE, raised |-> FALSE]
    /\ items = [passed |-> 0, failed |-> 0]
    /\ report = [failed |-> FALSE, empty |-> FALSE]

Next ==
    \/ StartSuite \/ RecordResult \/ RecordException \/ MainSummary
    \/ DcLoad \/ DcProbeMotor \/ DcGetDetectors \/ DcProbeDetector
    \/ DcGetBaseline \/ DcProbeBaseline \/ DcSummary \/ DcReturn \/ DcExcept
    \/ RECall
    \/ DoLoad \/ DoMotionStart \/ DoMotionBack \/ DoMotionDone \/ DoMotionFail
    \/ DoCount \/ DoCountOk \/ DoCountFail
    \/ DdStart \/ DdCheck \/ DdFail
    \/ PsLoad \/ PsImport \/ PsSubmit \/ PsOk \/ PsFail \/ PsReturn
    \/ BpLoad \/ BpSubmit \/ BpOk \/ BpFail \/ BpReturn
    \/ PeLoad \/ PeSubmit \/ PeOk \/ PeFail \/ PeReturn
    \/ VcRun \/ VpCheck \/ VpReturn \/ ViCheck \/ VeImport \/ VeProbe \/ VeReturn
    \/ VlCheck \/ VfStart \/ VfOk \/ VfFail \/ VdStart \/ VdCheck \/ VdFail
    \/ ExStart \/ ExProbe \/ ExReturn \/ ExExit \/ ExMotion \/ ExMotionEnd

Spec == Init /\ [][Next]_vars

\* the interpreter runs one thread: a step that can be taken is taken
FairSpec == Spec /\ WF_vars(Next)

\* ------------------------------------------------------------------ claims

\* the test the orchestrator is running or has just run
Suite == IF suiteIdx \in 1..Len(Tests(script)) THEN Tests(script)[suiteIdx] ELSE "none"

Orchestrated == script # "explore_iocs"

ResultsOf(label) ==
    IF label = "motors" THEN motor_results
    ELSE IF label = "detectors" THEN detector_results
    ELSE IF label = "baseline" THEN baseline_results ELSE <<>>

Entries(d) == {d[i] : i \in 1..Len(d)}
Passes(d) == Cardinality({i \in 1..Len(d) : d[i].connected = "True" /\ d[i].error = "none"})
Recorded == Len(motor_results) + Len(detector_results) + Len(baseline_results)
TotalRegistered ==
    Len(DevicesByLabelGet("motors")) + Len(DevicesByLabelGet("detectors"))
        + Len(DevicesByLabelGet("baseline"))
Probed == items.passed + items.failed

\* C1: the exit code of test_devices.main, test_plans.main and
\* validate_setup.main is 0 exactly when every suite of the list returned
\* True and 1 in every other case, a suite that raised included; no other
\* exit code is produced, and none before the summary.
C1_ExitCodeIffAllPassed ==
    /\ exitCode \in {NoExit, 0, 1}
    /\ (exitCode # NoExit) <=> (pc = "done")
    /\ (pc = "done" /\ Orchestrated) =>
          /\ Len(results) = Len(Tests(script))
          /\ (exitCode = 0) <=> returned.allTrue
          /\ (exitCode = 1) <=> ~returned.allTrue

C1_Witness ==
    pc = "done" /\ script = "validate_setup" /\ returned.raised /\ exitCode = 1

\* C2: every suite of the list is started exactly once, in list order,
\* whatever the suites before it returned, and the results list holds one
\* entry per suite in the same order when the orchestrator is done.
C2_EverySuiteOnceInOrder ==
    /\ started = SubSeq(Tests(script), 1, Len(started))
    /\ [i \in 1..Len(results) |-> results[i].name] = SubSeq(Tests(script), 1, Len(results))
    /\ Len(results) <= Len(started) /\ Len(started) <= Len(results) + 1
    /\ (pc = "done" /\ Orchestrated) =>
          /\ started = Tests(script)
          /\ Len(results) = Len(Tests(script))

C2_Witness ==
    /\ pc = "done" /\ script = "test_devices"
    /\ ~results[1].success /\ results[2].success
    /\ started = Tests(script)

\* every device of the label has an entry, an error entry if it was not processed
AllRecorded(label) ==
    \A n \in {DevicesByLabelGet(label)[i] : i \in 1..Len(DevicesByLabelGet(label))} :
        \E r \in Entries(ResultsOf(label)) : r.name = n

C4_CountsMatchRecordedResults ==
    /\ pc \in {"dc_motors", "dc_detectors", "dc_baseline", "dc_return"} =>
          /\ Recorded = Probed
          /\ Passes(motor_results) + Passes(detector_results) + Passes(baseline_results)
                = items.passed
    /\ pc = "dc_motors" => Len(motor_results) = idx - 1
    /\ pc = "dc_detectors" => Len(detector_results) = idx - 1
    /\ pc = "dc_baseline" => Len(baseline_results) = idx - 1
    /\ pc = "dc_return" =>
          /\ successful = items.passed
          /\ nitems = Recorded
          /\ successful + items.failed = nitems
    /\ pc \in {"ps_loop", "bp_loop", "pe_loop"} =>
          /\ successful = items.passed
          /\ successful + items.failed = idx - 1
          /\ idx - 1 <= nitems

C4_Witness ==
    /\ pc = "dc_motors" /\ idx = 3
    /\ motor_results[1].error = "format" /\ motor_results[2].connected = "True"

C6_AnyFailedItemFailsRun ==
    /\ (pc = "ret" /\ items.failed > 0) => ret # "True"
    /\ (pc = "done" /\ report.failed) => exitCode = 1

\* the lists a suite works on are empty
NothingDiscovered ==
    IF Suite = "Device Connectivity" THEN TotalRegistered = 0
    ELSE IF Suite = "Device Operations"
    THEN DevicesByLabelGet("motors") = <<>> /\ DevicesByLabelGet("detectors") = <<>>
    ELSE FALSE

NeedsDevices ==
    {"Data Collection", "Plan Simulation", "Built-in Plans", "Real Device Plans",
     "Device Functionality"}

\* C7 as claimed: a suite that discovers no device for its labels does not
\* fail, whichever suite it is.
C7_EmptySuiteNeverFails ==
    /\ (pc = "ret" /\ why = NoWhy /\ NothingDiscovered) => ret = "True"
    /\ (pc = "ret" /\ why = NoDevices) => ret = "True"

\* C7 as amended: Device Connectivity and Device Operations pass when they
\* discover no device; Data Collection, the three plan suites and Device
\* Functionality return False when a list they need is empty ("No motors or
\* detectors available"), and the run then exits with 1.
C7_EmptySuiteFailsWhereDevicesNeeded ==
    /\ (pc = "ret" /\ why = NoWhy /\ NothingDiscovered) => ret = "True"
    /\ (pc = "ret" /\ why = NoDevices) => (ret = "False" /\ Suite \in NeedsDevices)
    /\ (pc = "done" /\ Orchestrated
          /\ ~HaveDevices(DevicesByLabelGet("motors"), DevicesByLabelGet("detectors")))
          => exitCode = 1

C7_Witness ==
    pc = "ret" /\ Suite = "Device Connectivity" /\ TotalRegistered = 0 /\ ret = "True"

\* C8: the connectivity suite reports k/n, n the number of discovered devices
\* and k the number that answered every read and are connected, and it
\* passes exactly when k = n; a failed connectivity suite fails the run.  The
\* PV suites count the same way over their PV lists.  Three motors of which
\* two are reachable give 2/3.
C8_ConnectivityReportsReachableOfDiscovered ==
    /\ pc = "dc_return" =>
          /\ nitems = TotalRegistered
          /\ successful = items.passed
          /\ Probed = nitems
          /\ ConnectivityVerdict(motor_results, detector_results, baseline_results,
                                 motors, detectors, baseline)
                = (IF items.failed = 0 THEN "True" ELSE "False")
    /\ (pc = "ret" /\ script = "test_devices" /\ Suite = "Device Connectivity" /\ why = NoWhy)
          => ((ret = "True") <=> (items.failed = 0))
    /\ (pc \in {"ve_loop", "ex_loop"}) =>
          /\ successful = items.passed
          /\ Probed = idx
    /\ (pc = "ret" /\ why = NoWhy /\ (script = "explore_iocs" \/ Suite = "EPICS Connectivity"))
          => ((ret = "True") <=> (items.failed = 0))
    /\ (pc = "done" /\ script = "test_devices" /\ ~results[1].success) => exitCode = 1

C8_Witness ==
    /\ pc = "dc_return" /\ Len(motors) = 3 /\ detectors = <<>> /\ baseline = <<>>
    /\ successful = 2 /\ nitems = 3

C11_EveryProbeTerminates ==
    (pc \in {"dc_motors", "dc_detectors", "dc_baseline", "ve_loop", "ex_loop"})
        ~> (pc = "ret")

\* C12: a PV whose connection wait times out (wait_for_connection returns
\* False) is not counted as connected, so the count stays below the number of
\* PVs probed, the suite returns False and explore_iocs exits with 1.
C12_TimedOutPvNeverPasses ==
    /\ (pc \in {"ve_loop", "ex_loop"} /\ lastProbe.label = "pvs"
          /\ lastProbe.beh.connected = "False") =>
          /\ lastProbe.name = idx
          /\ successful < idx
          /\ items.failed > 0
    /\ (pc \in {"ve_loop", "ex_loop"}) =>
          /\ successful + items.failed = idx
          /\ items.failed > 0 => PvVerdict(successful, nitems) = "False"
    /\ (pc = "ret" /\ why = NoWhy /\ items.failed > 0
          /\ (script = "explore_iocs" \/ Suite = "EPICS Connectivity")) => ret = "False"
    /\ (pc = "done" /\ script = "explore_iocs" /\ items.failed > 0) => exitCode = 1

C12_Witness ==
    /\ pc = "ex_loop" /\ idx = 2 /\ successful = 1
    /\ lastProbe.label = "pvs" /\ lastProbe.name = 2 /\ lastProbe.beh.connected = "False"

\* the number of plans of the plan suite that is running
NPlans ==
    IF Suite = "Plan Simulation" THEN Len(PlansToTest(DevicesByLabelGet("motors")))
    ELSE IF Suite = "Built-in Plans" THEN Len(BuiltInTests)
    ELSE Len(SafeTests)

C14_EveryPlanCallReturns ==
    (pc = "RE") ~> (pc \notin {"RE", "hung"})

NeedsMotor(plan) == plan # "count"
NeedsDetector(plan) == plan \notin {"mvr+", "mvr-"}

\* C15: an engine call is made for a plan only when the devices the plan
\* works on are present and connected.
C15_NoEngineCallWithoutConnectedTargets ==
    (pc = "RE") =>
        /\ NeedsMotor(cont.plan) => motors # <<>>
        /\ NeedsDetector(cont.plan) => detectors # <<>>
        /\ cont.connected

\* C16: at most one submission to RE has started and not yet returned, in
\* every reachable state, and it is the one the code is waiting for.
C16_OnePlanInFlight ==
    /\ RE.inflight \in {0, 1}
    /\ (RE.inflight = 1) <=> (cont # NoCall)
    /\ (RE.inflight = 1) => pc \in {"RE", "hung"}
    /\ (pc = "RE") => RE.inflight = 1

C16_Witness ==
    pc = "RE" /\ RE.calls = 3 /\ RE.inflight = 1 /\ script = "test_devices"

\* C17: the engine is free again after every plan execution, whatever its
\* outcome: it is never held outside a call, every call in flight ends, and
\* after a plan that faulted the next plan is submitted or the suite returns.
C17_EngineAlwaysReleased ==
    /\ [](pc \notin {"RE", "hung"} => RE.inflight = 0)
    /\ (RE.inflight > 0) ~> (RE.inflight = 0)
    /\ (pc \in {"ps_fail", "bp_fail", "pe_fail"}) ~> (pc \in {"RE", "ret"})

ResultNames == {results[i].name : i \in 1..Len(results)}

\* C18: suites run one after the other: while a suite runs every suite before
\* it has its result recorded; no engine call is made before or during the
\* device probes of Device Connectivity in test_devices, nor before or during
\* EPICS Connectivity in validate_setup.
C18_SuitesStrictlySequential ==
    /\ (Orchestrated /\ pc \notin {"main", "done"}) =>
          /\ Len(started) = Len(results) + 1
          /\ suiteIdx = Len(started)
    /\ (Orchestrated /\ pc \in {"main", "done"}) => Len(started) = Len(results)
    /\ (pc \in {"dc_load", "dc_motors", "dc_detectors", "dc_baseline", "dc_return",
                "dc_except"}) => RE.calls = 0
    /\ (pc \in {"ve_import", "ve_loop"}) => RE.calls = 0
    /\ (RE.calls > 0 /\ script = "test_devices") => "Device Connectivity" \in ResultNames
    /\ (RE.calls > 0 /\ script = "validate_setup") => "EPICS Connectivity" \in ResultNames

C18_Witness ==
    /\ pc = "RE" /\ script = "test_devices" /\ Suite = "Device Operations"
    /\ results = <<[name |-> "Device Connectivity", success |-> FALSE]>>

\* C19: a lookup of a label that was never registered fails, unlike a lookup
\* of a registered label without devices: a suite gets past the lookup of a
\* label, or reports that it has no devices, only for registered labels.
C19_UnregisteredLabelFaults ==
    /\ pc = "dc_motors" => "motors" \in registered
    /\ pc = "dc_detectors" => "detectors" \in registered
    /\ pc \in {"dc_baseline", "dc_return"} => "baseline" \in registered
    /\ (pc = "ret" /\ why = NoDevices) => {"motors", "detectors"} \subseteq registered

NamesOf(d) == [i \in 1..Len(d) |-> d[i].name]

\* C20: within a label the recorded results are in discovery order, one per
\* device: during the connectivity suite each result sequence names a prefix
\* of the discovered devices, and at the summary the whole list.
C20_ResultsInDiscoveryOrder ==
    /\ NamesOf(motor_results) = SubSeq(motors, 1, Len(motor_results))
    /\ NamesOf(detector_results) = SubSeq(detectors, 1, Len(detector_results))
    /\ NamesOf(baseline_results) = SubSeq(baseline, 1, Len(baseline_results))
    /\ pc = "dc_return" =>
          /\ NamesOf(motor_results) = DevicesByLabelGet("motors")
          /\ NamesOf(detector_results) = DevicesByLabelGet("detectors")
          /\ NamesOf(baseline_results) = DevicesByLabelGet("baseline")

C20_Witness ==
    /\ pc = "dc_return" /\ Len(motor_results) = 3
    /\ motor_results[1].connected = "True" /\ motor_results[2].error = "format"
    /\ motor_results[3].connected = "False"

DataCollection == Suite = "Data Collection"

\* the step in which a data-collection suite hands back its verdict
DataVerdictStep == pc \in {"dd_check", "vd_check"} /\ pc' = "ret"

\* C21 as stated: the data-collection suite passes exactly when the plan
\* completed, the catalog holds more runs than before the plan and the
\* latest run exposes a scan id.
C21_PassedIffDeltaAndScanId ==
    [][DataVerdictStep =>
          (ret' = "True" <=> (NewRuns(cat, initial_runs) /\ why'.phase # "no_scan_id"))]_vars

\* C21: the data-collection suite passes exactly when the plan completed, the
\* catalog holds more runs than before the plan and every read the suite
\* makes of the latest run succeeded: the scan id, and in test_devices also
\* the primary stream.  A plan that raised fails the suite.  A passing count
\* plan on a catalog of 0 runs leaves 1 run.
C21_PassedIffDeltaAndLatestRead ==
    /\ [](/\ pc \in {"dd_check", "vd_check"} =>
                (DataCollection /\ RE.inflight = 0 /\ cont = NoCall)
          /\ (pc = "ret" /\ DataCollection /\ ret = "True") =>
                (items.passed = 1 /\ items.failed = 0 /\ cat >= 1)
          /\ (pc = "ret" /\ DataCollection /\ why.reason = "fault") =>
                (ret = "False" /\ cat >= 1)
          /\ (pc = "ret" /\ script = "validate_setup") => why.phase # "no_primary")
    /\ [][/\ DataVerdictStep =>
                /\ ret' = "True" <=> (NewRuns(cat, initial_runs) /\ why' = NoWhy)
                /\ why' # NoWhy => (NewRuns(cat, initial_runs) /\ why'.reason = "fault")
                /\ (ret' = "True" /\ initial_runs = 0) => cat = 1
          /\ pc \in {"dd_fail", "vd_fail"} => (pc' = "ret" /\ ret' = "False")]_vars

C21_Witness ==
    /\ pc = "ret" /\ script = "validate_setup" /\ DataCollection
    /\ ret = "True" /\ cat = 1

\* the motion test of test_device_operations has been reported as passed
MotionPassed ==
    pc = "do_detectors" /\ Suite = "Device Operations" /\ motors # <<>> /\ items.passed = 1

\* C22: the motion test moves the motor by one step and back, and it is
\* reported as passed only if the motor then stands where it stood before the
\* moves (positions are counted in steps, the tolerance is below one step).
C22_PassedOnlyIfRoundTrip ==
    /\ (pc = "RE" /\ cont.plan = "mvr-") => cont.ok = "do_motion_done"
    /\ pc \in {"do_motion_back", "do_motion_done"} => RE.calls >= 1
    /\ MotionPassed => position = initial_pos

\* the plan list of the plan suite that is running
PlanList ==
    IF Suite = "Plan Simulation" THEN PlansToTest(motors)
    ELSE IF Suite = "Built-in Plans" THEN BuiltInTests
    ELSE SafeTests

\* the most engine calls one run of a script can make
MaxCalls ==
    IF script = "test_plans"
    THEN Len(PlansToTest(DevicesByLabelGet("motors"))) + Len(BuiltInTests) + Len(SafeTests)
    ELSE IF script = "test_devices" THEN 4
    ELSE IF script = "validate_setup" THEN 2
    ELSE 0

\* C23: nothing is retried.  In a probe loop the number of probes made is the
\* number of devices or PVs passed, whatever the probes answered; the plan in
\* flight is the plan at the loop's index and all plans before it have
\* exactly one outcome; after a faulted plan the loop moves to the next plan
\* without a further engine call; every engine call is one submission.
C23_NoRetries ==
    /\ [](/\ pc = "dc_motors" => (Len(motor_results) = idx - 1 /\ Probed = idx - 1)
          /\ pc = "dc_detectors" =>
                (Len(detector_results) = idx - 1 /\ Probed = Len(motors) + idx - 1)
          /\ pc = "dc_baseline" =>
                /\ Len(baseline_results) = idx - 1
                /\ Probed = Len(motors) + Len(detectors) + idx - 1
          /\ pc \in {"ve_loop", "ex_loop"} => (Probed = idx /\ idx <= nitems)
          /\ (script = "test_plans" /\ pc \in {"RE", "hung"}) =>
                (cont.plan = PlanList[idx] /\ Probed = idx - 1)
          /\ RE.calls <= MaxCalls)
    /\ [][/\ pc \in {"ps_fail", "bp_fail", "pe_fail"} => (idx' = idx + 1 /\ RE' = RE)
          /\ RE'.calls # RE.calls => (RE'.calls = RE.calls + 1 /\ pc' = "RE")]_vars

C23_Witness ==
    /\ pc = "ps_loop" /\ idx > nitems /\ nitems = 4
    /\ items.failed = 4 /\ RE.calls = 4

\* the positions of the code at which a probe runs
ProbePcs ==
    {"dc_load", "dc_motors", "dc_detectors", "dc_baseline", "dc_return", "dc_except",
     "ve_import", "ve_loop", "ex_connectivity", "ex_loop", "ex_motion"}

InSimulation ==
    /\ Suite = "Plan Simulation"
    /\ pc \in {"ps_import", "ps_loop", "ps_ok", "ps_fail", "RE", "hung"}

C27_MissingEpicsPassesInSetup ==
    /\ ~EPICS_AVAILABLE => pc \notin {"ve_loop", "ex_loop"}
    /\ (pc = "ret" /\ Suite = "EPICS Connectivity" /\ ~EPICS_AVAILABLE) =>
          (ret = "True" /\ Probed = 0 /\ why = Unavailable)
    /\ (script = "validate_setup" /\ ~EPICS_AVAILABLE /\ Len(results) >= 4) =>
          results[4] = [name |-> "EPICS Connectivity", success |-> TRUE]
    /\ (script = "validate_setup" /\ ~EPICS_AVAILABLE /\ pc = "done" /\ exitCode = 1) =>
          \E i \in 1..Len(results) : i # 4 /\ ~results[i].success
    /\ (pc = "ret" /\ script = "explore_iocs" /\ ~EPICS_AVAILABLE) =>
          (ret = "False" /\ Probed = 0 /\ why = Unavailable)

C27_Witness ==
    /\ script = "validate_setup" /\ ~EPICS_AVAILABLE
    /\ pc = "done" /\ exitCode = 0 /\ results[4].success

\* C28: check_python_environment looks at all four required packages and
\* returns False exactly when at least one of them had no module spec or a
\* spec lookup that raised: a package enters missing_packages in exactly
\* these two cases, a package that is found and fails on import does not,
\* and the verdict is only given after the fourth package.
C28_PackagesVerdict ==
    /\ pc = "vp_loop" =>
          /\ idx <= Len(RequiredPackages) /\ Probed = idx
          /\ Len(missing_packages) = items.failed
          /\ lastProbe.label = "packages" =>
                /\ lastProbe.name = idx
                /\ lastProbe.beh.read \in {"no_spec", "spec_raises"} <=>
                      /\ missing_packages # <<>>
                      /\ missing_packages[Len(missing_packages)] = RequiredPackages[idx]
    /\ (pc = "ret" /\ Suite = "Python Environment") =>
          /\ Probed = Len(RequiredPackages)
          /\ ret = "False" <=> items.failed >= 1
          /\ ret = "True" <=> items.failed = 0

C28_Witness ==
    /\ pc = "vp_loop" /\ idx = 4 /\ lastProbe.label = "packages"
    /\ lastProbe.beh.read = "import_error" /\ missing_packages = <<>>

====
